---- MODULE Spec2Model ----
(***************************************************************************)
(* The transcript store of opencode-chat-recall (src/src/storage.ts), the  *)
(* host event handlers that save into it (the plugin entry,                *)
(* src/unnamed/part_001) and buildTranscript (src/src/formatter.ts).       *)
(*                                                                         *)
(* The state is the on-disk tree under TRANSCRIPT_DIR (one record of files *)
(* per session and index.json) and the position and locals of every async  *)
(* call in flight.  Every await of the source is one step, so calls        *)
(* interleave exactly where the JavaScript event loop lets them.           *)
(***************************************************************************)
EXTENDS Integers, Sequences, FiniteSets, TLC

VARIABLES
    now,     \* Date.now(), in clock ticks
    budget,  \* I/O failures the environment may still inject
    fs,      \* fs[s]: the files of <TRANSCRIPT_DIR>/<s>/
    index,   \* the file <TRANSCRIPT_DIR>/index.json
    hpc,     \* hpc[h]: the await at which handler invocation h stands
    htr,     \* htr[h]: the transcript h built and is saving, or saved last
    hi,      \* hi[h]: position of saveTranscript's loop over transcript.chunks
    hidx,    \* hidx[h]: the index object updateIndexEntry read
    hres,    \* hres[h]: how h's last saveTranscript ended
    swpc,    \* the await at which the retention sweep stands
    swq,     \* expired sessions the sweep's loop has yet to reach
    swexp,   \* sessions the sweep found expired when it read the index
    swcur,   \* the session deleteTranscript is working on
    swfiles, \* entries of readdir not yet visited by deleteTranscript's loops
    swidx,   \* the index object removeIndexEntry read
    swcount, \* deletedCount
    swlast,  \* value returned by the last completed sweep
    swdel,   \* how the last deleteTranscript call ended
    ld,      \* the loadTranscript call: its await (pc), its session (sid),
             \* what it has read (acc), the chunk files of readdir it has
             \* yet to read (files), and what the last call returned (res)
    call,    \* the last call of a tool or of a function of the search: its
             \* name (op), its arguments, and what it returned (ret)
    timer,   \* scheduleCleanup: cleanupScheduled, the timer that is set
             \* (armed), where the timer's callback stands (cb), whether it is
             \* the setTimeout callback (first), how the last callback's
             \* sweep ended (last), and the errors its catch logged (caught)
    solo,   \* history: the task that has run undisturbed since all were idle
    streak   \* history: sweeps completed back to back with nothing in between

vars == <<now, budget, fs, index, hpc, htr, hi, hidx, hres,
          swpc, swq, swexp, swcur, swfiles, swidx, swcount, swlast, swdel,
          ld, call, timer, solo, streak>>

hvars == <<hpc, htr, hi, hidx, hres>>
swvars == <<swpc, swq, swexp, swcur, swfiles, swidx, swcount, swlast, swdel>>
lvars == <<ld>>
tvars == <<call, timer>>

----------------------------------------------------------------------------
(* Bounds of the model *)

\* Largest number of messages (hence chunks) of a fetched session.
MaxChunks == 2
\* The clock stops here; every buildTranscript advances it, so it also
\* bounds the number of saves.
MaxTime == 3
\* RETENTION_DAYS days, measured in clock ticks.
RetentionTicks == 1
\* I/O failures (a Bun.write or unlink that throws) in one behaviour.
MaxFaults == 1
\* Calls in flight at the same time.
MaxActive == 2
\* Most parts of one message, and the latest msg.info.time.created, of the
\* message lists with parts of every kind.
MaxParts == 2
MaxCreated == 2
\* Longest chunk content and longest query of the searched corpus.
MaxContent == 2
MaxQuery == 3
\* The excerpt's maxLength (500 at the call in searchTranscripts) and the
\* context's (200), in characters of the model's short contents.
ExcerptMax == 4
ContextMax == 3
\* Longest content and most terms given to createExcerpt on its own.
MaxExcerptContent == 6
MaxTerms == 2
\* timer.caught stops counting the logged cleanup errors here.
MaxCaught == 2

Sessions == {"s1", "s2"}
Handlers == {"h1", "h2"}
ChunkIds == 0 .. (MaxChunks - 1)

----------------------------------------------------------------------------
(* Files *)

Absent == [st |-> "absent"]
\* A file a failed write left truncated: present, but not the content written.
Torn == [st |-> "torn"]
Ok(v) == [st |-> "ok", v |-> v]
Exists(f) == f.st # "absent"
Parses(f) == f.st = "ok"

NoRecord ==
    [dir |-> FALSE, meta |-> Absent, md |-> Absent, txt |-> Absent,
     cdir |-> FALSE, chunks |-> [i \in ChunkIds |-> Absent]]

\* Bun.write(path, data) that succeeds; it creates missing parent directories.
BunWrite(s, name, data) ==
    [fs EXCEPT ![s].dir = TRUE, ![s][name] = Ok(data)]

BunWriteChunk(s, i, data) ==
    [fs EXCEPT ![s].dir = TRUE, ![s].cdir = TRUE, ![s].chunks[i] = Ok(data)]

\* What a Bun.write that throws can leave behind: the file as it was (the
\* open failed) or truncated (the write failed after the open).
FailedWrite(old) == {old, Torn}

----------------------------------------------------------------------------
(* The index *)

EmptyIndex == [x \in {} |-> 0]

readIndex == IF Parses(index) THEN index.v ELSE EmptyIndex

IndexPut(idx, metadata) ==
    [x \in DOMAIN idx \cup {metadata.sessionID} |->
        IF x = metadata.sessionID THEN metadata ELSE idx[x]]

IndexDelete(idx, s) == [x \in DOMAIN idx \ {s} |-> idx[x]]

----------------------------------------------------------------------------
(* buildTranscript *)

calculateExpiresAt(t) == t + RetentionTicks

\* Strings are sequences of characters.  A message is msg.info.id,
\* msg.info.time.created and msg.parts; a part is a text part, a reasoning
\* part, a tool part (completed or not) or a part of any other type.
TextPart(text) == [type |-> "text", text |-> text]
ReasoningPart(text) == [type |-> "reasoning", text |-> text]
ToolPart(completed) == [type |-> "tool", completed |-> completed]
FilePart == [type |-> "file"]
Message(id, created, parts) == [id |-> id, created |-> created, parts |-> parts]

\* What the loop over msg.parts pushes to contentParts for one part: the text
\* of a text or reasoning part, whatever it is; "Tool: ..." and "Input: ..."
\* (T, I) for a tool part, and "Output: ..." (O) when it is completed;
\* nothing for any other part.
PartContent(part) ==
    CASE part.type = "text" -> <<part.text>>
      [] part.type = "reasoning" -> <<part.text>>
      [] part.type = "tool" ->
            IF part.completed THEN <<<<"T">>, <<"I">>, <<"O">>>>
            ELSE <<<<"T">>, <<"I">>>>
      [] OTHER -> <<>>

RECURSIVE ContentParts(_)
ContentParts(parts) ==
    IF parts = <<>> THEN <<>>
    ELSE PartContent(Head(parts)) \o ContentParts(Tail(parts))

\* contentParts.join("\n")
RECURSIVE Join(_)
Join(strings) ==
    IF strings = <<>> THEN <<>>
    ELSE IF Len(strings) = 1 THEN Head(strings)
    ELSE Head(strings) \o <<"\n">> \o Join(Tail(strings))

\* A chunk whose id does not count up: every chunk is chunk_0.
ChunkZero(chunkIndex, s, msg, t) ==
    [id |-> 0, sessionID |-> s, messageID |-> msg.id,
     content |-> Join(ContentParts(msg.parts)), timestamp |-> msg.created,
     rev |-> t]

\* chunks.push({ id: `chunk_${chunkIndex++}`, ... }) for message msg of the
\* list fetched at time t.  rev is not a field of the source's chunk: it
\* stands for the state of the message at that fetch, which a later fetch may
\* find changed, and tells the chunk files of two saves apart.
TranscriptChunk(chunkIndex, s, msg, t) ==
    [id |-> chunkIndex, sessionID |-> s, messageID |-> msg.id,
     content |-> Join(ContentParts(msg.parts)), timestamp |-> msg.created,
     rev |-> t]

\* The loop of createChunks from message k on, chunkIndex chunks emitted so
\* far: a message is passed over when contentParts.length is 0.
RECURSIVE CreateChunksFrom(_, _, _, _, _)
CreateChunksFrom(messages, k, chunkIndex, s, t) ==
    IF k > Len(messages) THEN <<>>
    ELSE IF Len(ContentParts(messages[k].parts)) > 0
    THEN <<TranscriptChunk(chunkIndex, s, messages[k], t)>>
         \o CreateChunksFrom(messages, k + 1, chunkIndex + 1, s, t)
    ELSE CreateChunksFrom(messages, k + 1, chunkIndex, s, t)

createChunks(messages, s, t) == CreateChunksFrom(messages, 1, 0, s, t)

\* A message of one text part, and the list of n of them a host event of an
\* ordinary session fetches.
Msg(i) == Message(i, i, <<TextPart(<<"a">>)>>)
Msgs(n) == [k \in 1 .. n |-> Msg(k - 1)]
PlainMessages == {Msgs(n) : n \in 1 .. MaxChunks}

\* Message lists with parts of every kind, empty texts included, created in
\* any order.
PartValues ==
    {TextPart(<<>>), TextPart(<<"a">>), ReasoningPart(<<>>),
     ToolPart(TRUE), FilePart}
PartLists == UNION {[1 .. n -> PartValues] : n \in 0 .. MaxParts}
FetchedMessages ==
    UNION {{[k \in 1 .. n |-> Message(k - 1, created[k], parts[k])] :
               created \in [1 .. n -> 1 .. MaxCreated],
               parts \in [1 .. n -> PartLists]} : n \in 1 .. MaxChunks}

\* The chunk of message i of the list Msgs(n) fetched at time t.
Chunk(s, i, t) == TranscriptChunk(i, s, Msg(i), t)

buildTranscript(messages, s, compacted, t) ==
    [metadata |->
        [sessionID |-> s, createdAt |-> t, updatedAt |-> t,
         messageCount |-> Len(messages), compacted |-> compacted,
         compactedAt |-> IF compacted THEN {t} ELSE {},
         expiresAt |-> calculateExpiresAt(t)],
     markdown |-> t,
     text |-> t,
     chunks |-> createChunks(messages, s, t)]

NoTranscript == buildTranscript(<<>>, "s1", FALSE, 0)

\* JSON.stringify(value, null, 2) of a metadata or chunk object, as the
\* object JSON.parse makes of the text: a key whose value is undefined
\* (compactedAt of a transcript that is not compacted, here {}) is left out.
JSONStringify(o) ==
    [k \in {x \in DOMAIN o : x = "compactedAt" => o[x] # {}} |-> o[k]]

\* object[key] of a parsed object: undefined ({}) when the key is missing.
Field(o, key) == IF key \in DOMAIN o THEN o[key] ELSE {}

\* JSON.stringify(index, null, 2) in writeIndex.
StringifyIndex(idx) == [x \in DOMAIN idx |-> JSONStringify(idx[x])]

----------------------------------------------------------------------------
(* loadTranscript *)

NoResult == [st |-> "none"]
Null == [st |-> "null"]
Returned(transcript) == [st |-> "ok", v |-> transcript]

\* Bun.file(path).text() of a file that exists: what was written, or the
\* truncated text (0) of a torn file.
Text(f) == IF Parses(f) THEN f.v ELSE 0

RECURSIVE Insert(_, _)
Insert(c, q) ==
    IF q = <<>> THEN <<c>>
    ELSE IF c.timestamp < Head(q).timestamp THEN <<c>> \o q
    ELSE <<Head(q)>> \o Insert(c, Tail(q))

\* chunks.sort((a, b) => a.timestamp - b.timestamp): stable, ascending.
RECURSIVE SortByTimestamp(_)
SortByTimestamp(q) ==
    IF q = <<>> THEN <<>>
    ELSE Insert(q[Len(q)], SortByTimestamp(SubSeq(q, 1, Len(q) - 1)))

\* The call as it is made, before its first await; res keeps the previous
\* call's value until this one returns.
LoadCall(s, res) ==
    [pc |-> "idle", sid |-> s, acc |-> NoTranscript, files |-> <<>>,
     res |-> res]

LoadReturns(l, r) == LoadCall(l.sid, r)

\* loadTranscript from one await to the next, on the files as they are now.
\* The outer catch returns null; the inner catch (around readdir and the
\* chunk loop, sort included) falls through to the return of what was read.
LoadAdvance(l, disk) ==
    LET d == disk[l.sid] IN
    CASE l.pc = "meta" ->
            IF Parses(d.meta)
            THEN [l EXCEPT !.acc.metadata = d.meta.v, !.pc = "md"]
            ELSE LoadReturns(l, Null)
      [] l.pc = "md" ->
            IF Exists(d.md)
            THEN [l EXCEPT !.acc.markdown = Text(d.md), !.pc = "txt"]
            ELSE LoadReturns(l, Null)
      [] l.pc = "txt" ->
            IF Exists(d.txt)
            THEN [l EXCEPT !.acc.text = Text(d.txt), !.pc = "readdir"]
            ELSE LoadReturns(l, Null)
      [] l.pc = "readdir" ->
            LET listed == SelectSeq([k \in 1 .. MaxChunks |-> k - 1],
                                    LAMBDA i : Exists(d.chunks[i]))
            IN
            IF ~d.cdir \/ listed = <<>>
            THEN LoadReturns(l, Returned(l.acc))
            ELSE [l EXCEPT !.files = listed, !.pc = "chunk"]
      [] l.pc = "chunk" ->
            LET f == d.chunks[Head(l.files)]
                read == Append(l.acc.chunks, f.v)
            IN
            IF ~Parses(f)
            THEN LoadReturns(l, Returned(l.acc))
            ELSE IF Tail(l.files) = <<>>
            THEN LoadReturns(l, Returned(
                     [l.acc EXCEPT !.chunks = SortByTimestamp(read)]))
            ELSE [l EXCEPT !.acc.chunks = read, !.files = Tail(l.files)]

RECURSIVE LoadRun(_, _)
LoadRun(l, disk) ==
    IF l.pc = "idle" THEN l.res ELSE LoadRun(LoadAdvance(l, disk), disk)

\* What loadTranscript(s) returns when nothing else runs meanwhile.
loadTranscript(s, disk) ==
    LoadRun([LoadCall(s, NoResult) EXCEPT !.pc = "meta"], disk)

----------------------------------------------------------------------------
(* Tasks *)

HandlersIdle == \A h \in Handlers : hpc[h] = "idle"
AllIdle == HandlersIdle /\ swpc = "idle" /\ ld.pc = "idle"

Active ==
    Cardinality({h \in Handlers : hpc[h] # "idle"})
    + (IF swpc = "idle" THEN 0 ELSE 1) + (IF ld.pc = "idle" THEN 0 ELSE 1)

\* A call may start: alone when calls are made one after the other (seq),
\* else while fewer than MaxActive are in flight.
MayStart(seq) == IF seq THEN AllIdle ELSE Active < MaxActive

\* History: task t takes a step.
Step(t) ==
    /\ solo' = IF solo = t THEN t ELSE "none"
    /\ streak' = IF solo = t THEN streak ELSE 0

\* History: task t starts an operation.
Start(t) ==
    /\ solo' = IF AllIdle THEN t ELSE "none"
    /\ streak' = IF AllIdle /\ solo = t THEN streak ELSE 0

\* No call was made yet.
NoCall == [op |-> "none"]

\* let cleanupScheduled = false: no timer is set.
NoTimer ==
    [scheduled |-> FALSE, armed |-> "none", cb |-> "idle", first |-> FALSE,
     last |-> "none", caught |-> 0]

\* The transcript directory before the first save, nothing in flight.
EmptyStore ==
    /\ now = 0
    /\ budget = MaxFaults
    /\ fs = [s \in Sessions |-> NoRecord]
    /\ index = Absent
    /\ hpc = [h \in Handlers |-> "idle"]
    /\ htr = [h \in Handlers |-> NoTranscript]
    /\ hi = [h \in Handlers |-> 0]
    /\ hidx = [h \in Handlers |-> EmptyIndex]
    /\ hres = [h \in Handlers |-> "none"]
    /\ swpc = "idle"
    /\ swq = {}
    /\ swexp = {}
    /\ swcur = "s1"
    /\ swfiles = <<>>
    /\ swidx = EmptyIndex
    /\ swcount = 0
    /\ swlast = 0
    /\ swdel = "none"
    /\ ld = LoadCall("s1", NoResult)
    /\ timer = NoTimer
    /\ solo = "none"
    /\ streak = 0

Init == EmptyStore /\ call = NoCall

\* The clock advances.
Tick ==
    /\ now < MaxTime
    /\ now' = now + 1
    /\ solo' = "none"
    /\ streak' = 0
    /\ UNCHANGED <<budget, fs, index, hvars, swvars, lvars, tvars>>

----------------------------------------------------------------------------
(* saveSessionTranscript and saveTranscript *)

\* A host event for session s reaches handler invocation h: fetchSession and
\* fetchSessionMessages answer with the messages, buildTranscript runs, and
\* saveTranscript starts with await getSessionDir(sessionID).  compacted is
\* false for session.idle and true for session.compacted and the compacting
\* hook.
SaveStarts(h, s, messages, compacted, seq) ==
    /\ hpc[h] = "idle"
    /\ MayStart(seq)
    /\ now < MaxTime
    /\ now' = now + 1
    /\ htr' = [htr EXCEPT ![h] =
                  buildTranscript(messages, s, compacted, now + 1)]
    /\ fs' = [fs EXCEPT ![s].dir = TRUE]
    /\ hpc' = [hpc EXCEPT ![h] = "meta"]
    /\ hres' = [hres EXCEPT ![h] = "none"]
    /\ Start(h)
    /\ UNCHANGED <<budget, index, hi, hidx, swvars, lvars, tvars>>

\* Handlers of one session: invocation h2 is the one that arrives while h1
\* is in flight.
saveSessionTranscript(h, s, messages, compacted, seq) ==
    /\ h = "h2" => hpc["h1"] # "idle"
    /\ SaveStarts(h, s, messages, compacted, seq)

\* saveTranscript ends: its locals are gone; htr[h] and hres[h] keep what
\* the call was given and how it ended.
SaveEnds(h, how) ==
    /\ hpc' = [hpc EXCEPT ![h] = "idle"]
    /\ hres' = [hres EXCEPT ![h] = how]
    /\ UNCHANGED htr
    /\ hi' = [hi EXCEPT ![h] = 0]
    /\ hidx' = [hidx EXCEPT ![h] = EmptyIndex]

\* A saveTranscript that caught the error of a failed write, logged it and
\* went on to update the index.
SaveSwallows(h, at) ==
    /\ hpc' = [hpc EXCEPT ![h] = "idxread"]
    /\ UNCHANGED <<hres, htr, hi, hidx>>

\* How saveTranscript goes on when the write it awaits at step `at` threw:
\* nothing catches, so the call ends there and the error reaches the caller.
SaveThrows(h, at) == SaveEnds(h, at)

\* One of the three awaited Bun.write calls of metadata.json, transcript.md
\* and transcript.txt.
SaveWriteFile(h, at, data, next, fail) ==
    LET s == htr[h].metadata.sessionID IN
    /\ hpc[h] = at
    /\ IF fail
       THEN /\ budget > 0
            /\ budget' = budget - 1
            /\ \E f \in FailedWrite(fs[s][at]) :
                   fs' = [fs EXCEPT ![s][at] = f]
            /\ SaveThrows(h, at)
       ELSE /\ fs' = BunWrite(s, at, data)
            /\ hpc' = [hpc EXCEPT ![h] = next]
            /\ UNCHANGED <<budget, hres, htr, hi, hidx>>
    /\ Step(h)
    /\ UNCHANGED <<now, index, swvars, lvars, tvars>>

SaveMetadata(h, fail) ==
    SaveWriteFile(h, "meta", JSONStringify(htr[h].metadata), "md", fail)

SaveMarkdown(h, fail) ==
    SaveWriteFile(h, "md", htr[h].markdown, "txt", fail)

SaveText(h, fail) ==
    SaveWriteFile(h, "txt", htr[h].text, "cmkdir", fail)

\* await mkdir(chunksDir, { recursive: true })
SaveMkdirChunks(h) ==
    LET s == htr[h].metadata.sessionID IN
    /\ hpc[h] = "cmkdir"
    /\ fs' = [fs EXCEPT ![s].dir = TRUE, ![s].cdir = TRUE]
    /\ hpc' = [hpc EXCEPT ![h] =
                  IF Len(htr[h].chunks) = 0 THEN "idxread" ELSE "chunk"]
    /\ Step(h)
    /\ UNCHANGED <<now, budget, index, htr, hi, hidx, hres,
                   swvars, lvars, tvars>>

\* One turn of the loop over transcript.chunks.
SaveChunk(h, fail) ==
    LET s == htr[h].metadata.sessionID
        chunk == htr[h].chunks[hi[h] + 1]
    IN
    /\ hpc[h] = "chunk"
    /\ IF fail
       THEN /\ budget > 0
            /\ budget' = budget - 1
            /\ \E f \in FailedWrite(fs[s].chunks[chunk.id]) :
                   fs' = [fs EXCEPT ![s].chunks[chunk.id] = f]
            /\ SaveThrows(h, "chunk")
       ELSE /\ fs' = BunWriteChunk(s, chunk.id, JSONStringify(chunk))
            /\ hi' = [hi EXCEPT ![h] = hi[h] + 1]
            /\ hpc' = [hpc EXCEPT ![h] =
                          IF hi[h] + 1 = Len(htr[h].chunks)
                          THEN "idxread" ELSE "chunk"]
            /\ UNCHANGED <<budget, hres, htr, hidx>>
    /\ Step(h)
    /\ UNCHANGED <<now, index, swvars, lvars, tvars>>

\* updateIndexEntry: const index = await readIndex()
SaveReadIndex(h) ==
    /\ hpc[h] = "idxread"
    /\ hidx' = [hidx EXCEPT ![h] = readIndex]
    /\ hpc' = [hpc EXCEPT ![h] = "idxwrite"]
    /\ Step(h)
    /\ UNCHANGED <<now, budget, fs, index, htr, hi, hres, swvars, lvars, tvars>>

\* updateIndexEntry: index.transcripts[sessionID] = metadata;
\* await writeIndex(index); then saveTranscript returns the path.
SaveWriteIndex(h, fail) ==
    /\ hpc[h] = "idxwrite"
    /\ IF fail
       THEN /\ budget > 0
            /\ budget' = budget - 1
            /\ index' \in FailedWrite(index)
            /\ SaveThrows(h, "idxwrite")
       ELSE /\ index' = Ok(StringifyIndex(IndexPut(hidx[h], htr[h].metadata)))
            /\ SaveEnds(h, "ok")
            /\ UNCHANGED budget
    /\ Step(h)
    /\ UNCHANGED <<now, fs, swvars, lvars, tvars>>

SaveStep(h, fail) ==
    \/ SaveMetadata(h, fail)
    \/ SaveMarkdown(h, fail)
    \/ SaveText(h, fail)
    \/ (~fail /\ SaveMkdirChunks(h))
    \/ SaveChunk(h, fail)
    \/ (~fail /\ SaveReadIndex(h))
    \/ SaveWriteIndex(h, fail)

\* The event handler: session.idle saves with compacted = false.
SessionIdle(seq, HS, SS, MS) ==
    \E h \in HS, s \in SS, messages \in MS :
        saveSessionTranscript(h, s, messages, FALSE, seq)

\* session.compacted and the experimental.session.compacting hook save with
\* compacted = true.
SessionCompacted(seq, HS, SS, MS) ==
    \E h \in HS, s \in SS, messages \in MS :
        saveSessionTranscript(h, s, messages, TRUE, seq)

----------------------------------------------------------------------------
(* cleanupExpiredTranscripts and deleteTranscript *)

\* What readdir lists, in the order the loops visit it.  The entry of the
\* chunks directory itself is left out: stat says it is no file and the loop
\* passes over it.
FileEntries(s) ==
    SelectSeq(<<"meta", "md", "txt">>, LAMBDA f : Exists(fs[s][f]))

RECURSIVE ChunkEntriesFrom(_, _)
ChunkEntriesFrom(s, i) ==
    IF i >= MaxChunks THEN <<>>
    ELSE (IF Exists(fs[s].chunks[i]) THEN <<i>> ELSE <<>>)
         \o ChunkEntriesFrom(s, i + 1)

ChunkEntries(s) == ChunkEntriesFrom(s, 0)

Entry(kind, name, id) == [kind |-> kind, name |-> name, id |-> id]

RECURSIVE MapFiles(_)
MapFiles(q) ==
    IF q = <<>> THEN <<>>
    ELSE <<Entry("file", Head(q), 0)>> \o MapFiles(Tail(q))

RECURSIVE MapChunks(_)
MapChunks(q) ==
    IF q = <<>> THEN <<>>
    ELSE <<Entry("chunk", "chunk", Head(q))>> \o MapChunks(Tail(q))

\* readdir(sessionDir, { recursive: true })
ReaddirRecursive(s) == MapFiles(FileEntries(s)) \o MapChunks(ChunkEntries(s))

EntryFile(s, e) ==
    IF e.kind = "file" THEN fs[s][e.name] ELSE fs[s].chunks[e.id]

Unlink(s, e) ==
    IF e.kind = "file"
    THEN [fs EXCEPT ![s][e.name] = Absent]
    ELSE [fs EXCEPT ![s].chunks[e.id] = Absent]

NoChunkFiles(s) == \A i \in ChunkIds : ~Exists(fs[s].chunks[i])
NoFiles(s) ==
    ~Exists(fs[s].meta) /\ ~Exists(fs[s].md) /\ ~Exists(fs[s].txt)

\* The sessions cleanupExpiredTranscripts deletes: expiresAt set and strictly
\* before now.
Expired(idx, t) ==
    {s \in DOMAIN idx : idx[s].expiresAt # 0 /\ idx[s].expiresAt < t}

\* cleanupExpiredTranscripts: const index = await readIndex();
\* const now = Date.now().
CleanupStarts(seq) ==
    /\ swpc = "idle"
    /\ MayStart(seq)
    /\ swexp' = Expired(readIndex, now)
    /\ swq' = Expired(readIndex, now)
    /\ swcount' = 0
    /\ swpc' = "loop"
    /\ swdel' = "none"
    /\ Start("sw")
    /\ UNCHANGED <<now, budget, fs, index, hvars, lvars,
                   swcur, swfiles, swidx, swlast>>

\* The sweep called for its own sake, whoever the caller is.
cleanupExpiredTranscripts(seq) == CleanupStarts(seq) /\ UNCHANGED tvars

\* deleteTranscript is over, however it went: the sweep counts it.
DeleteEnds(how) ==
    /\ swdel' = how
    /\ swcount' = swcount + 1
    /\ swq' = swq \ {swcur}
    /\ swfiles' = <<>>
    /\ swidx' = EmptyIndex
    /\ swpc' = "loop"

\* What deleteTranscript does when a step of its outer try block threw at
\* `at`: the catch logs, and the call is over.
DeleteThrows(at) == DeleteEnds(at)

\* The loop reaches an expired session: deleteTranscript(sessionID) starts
\* with await readdir(sessionDir, { recursive: true }).
DeleteReaddir ==
    /\ swpc = "loop"
    /\ \E s \in swq :
        /\ swcur' = s
        /\ IF ~fs[s].dir
           THEN /\ swdel' = "readdir"
                /\ swcount' = swcount + 1
                /\ swq' = swq \ {s}
                /\ swpc' = "loop"
                /\ UNCHANGED swfiles
           ELSE /\ swfiles' = ReaddirRecursive(s)
                /\ swpc' = IF ReaddirRecursive(s) = <<>>
                           THEN "creaddir" ELSE "unlink"
                /\ UNCHANGED <<swdel, swcount, swq>>
    /\ Step("sw")
    /\ UNCHANGED <<now, budget, fs, index, hvars, lvars, tvars,
                   swexp, swidx, swlast>>

\* One turn of one of the two unlink loops.  The first (swpc = "unlink")
\* stats the entry and unlinks it if it is a file; a throw reaches the outer
\* catch and ends the call.  The second (swpc = "cunlink", inside the inner
\* try block) unlinks with no stat; a throw reaches the inner catch, which
\* goes on to the rmdir of the session directory.
DeleteUnlink(fail) ==
    LET e == Head(swfiles)
        inner == swpc = "cunlink"
    IN
    /\ swpc \in {"unlink", "cunlink"}
    /\ IF ~Exists(EntryFile(swcur, e))
       THEN /\ IF inner
               THEN /\ swpc' = "rmdir"
                    /\ swfiles' = <<>>
                    /\ UNCHANGED <<swdel, swcount, swq, swidx>>
               ELSE DeleteThrows("stat")
            /\ UNCHANGED <<fs, budget>>
       ELSE IF fail
       THEN /\ budget > 0
            /\ budget' = budget - 1
            /\ IF inner
               THEN /\ swpc' = "rmdir"
                    /\ swfiles' = <<>>
                    /\ UNCHANGED <<swdel, swcount, swq, swidx>>
               ELSE DeleteThrows("unlink")
            /\ UNCHANGED fs
       ELSE /\ fs' = Unlink(swcur, e)
            /\ swfiles' = Tail(swfiles)
            /\ swpc' = IF Tail(swfiles) # <<>> THEN swpc
                       ELSE IF inner THEN "crmdir" ELSE "creaddir"
            /\ UNCHANGED <<budget, swdel, swcount, swq, swidx>>
    /\ Step("sw")
    /\ UNCHANGED <<now, index, hvars, lvars, tvars, swexp, swcur, swlast>>

\* The inner try block: const chunkFiles = await readdir(chunksDir).
DeleteChunksReaddir ==
    /\ swpc = "creaddir"
    /\ IF ~fs[swcur].cdir
       THEN /\ swpc' = "rmdir"
            /\ UNCHANGED swfiles
       ELSE /\ swfiles' = MapChunks(ChunkEntries(swcur))
            /\ swpc' = IF ChunkEntries(swcur) = <<>>
                       THEN "crmdir" ELSE "cunlink"
    /\ Step("sw")
    /\ UNCHANGED <<now, budget, fs, index, hvars, lvars, tvars,
                   swq, swexp, swcur, swidx, swcount, swlast, swdel>>

\* await Bun.$`rmdir ${chunksDir}`.quiet().nothrow(): removes an empty
\* directory, and says nothing when it cannot.
DeleteRmdirChunks ==
    /\ swpc = "crmdir"
    /\ fs' = [fs EXCEPT ![swcur].cdir =
                 IF NoChunkFiles(swcur) THEN FALSE ELSE fs[swcur].cdir]
    /\ swpc' = "rmdir"
    /\ Step("sw")
    /\ UNCHANGED <<now, budget, index, hvars, lvars, tvars,
                   swq, swexp, swcur, swfiles, swidx, swcount, swlast, swdel>>

\* await Bun.$`rmdir ${sessionDir}`.quiet().nothrow()
DeleteRmdir ==
    /\ swpc = "rmdir"
    /\ fs' = [fs EXCEPT ![swcur].dir =
                 IF NoFiles(swcur) /\ ~fs[swcur].cdir
                 THEN FALSE ELSE fs[swcur].dir]
    /\ swpc' = "idxread"
    /\ Step("sw")
    /\ UNCHANGED <<now, budget, index, hvars, lvars, tvars,
                   swq, swexp, swcur, swfiles, swidx, swcount, swlast, swdel>>

\* removeIndexEntry: const index = await readIndex()
DeleteReadIndex ==
    /\ swpc = "idxread"
    /\ swidx' = readIndex
    /\ swpc' = "idxwrite"
    /\ Step("sw")
    /\ UNCHANGED <<now, budget, fs, index, hvars, lvars, tvars,
                   swq, swexp, swcur, swfiles, swcount, swlast, swdel>>

\* removeIndexEntry: delete index.transcripts[sessionID];
\* await writeIndex(index).
DeleteWriteIndex(fail) ==
    /\ swpc = "idxwrite"
    /\ IF fail
       THEN /\ budget > 0
            /\ budget' = budget - 1
            /\ index' \in FailedWrite(index)
            /\ DeleteThrows("idxwrite")
       ELSE /\ index' = Ok(StringifyIndex(IndexDelete(swidx, swcur)))
            /\ DeleteEnds("ok")
            /\ UNCHANGED budget
    /\ Step("sw")
    /\ UNCHANGED <<now, fs, hvars, lvars, tvars, swexp, swcur, swlast>>

\* The loop is over: return deletedCount.
CleanupReturns ==
    /\ swpc = "loop"
    /\ swq = {}
    /\ swlast' = swcount
    /\ swcount' = 0
    /\ swpc' = "idle"
    /\ solo' = IF solo = "sw" THEN "sw" ELSE "none"
    /\ streak' = IF solo = "sw" THEN (IF streak < 2 THEN streak + 1 ELSE 2)
                 ELSE 0
    /\ UNCHANGED <<now, budget, fs, index, hvars, lvars,
                   swq, swexp, swcur, swfiles, swidx, swdel>>

SweepReturn == CleanupReturns /\ UNCHANGED tvars

\* One await of deleteTranscript.
DeleteStep(fail) ==
    \/ (~fail /\ DeleteReaddir)
    \/ DeleteUnlink(fail)
    \/ (~fail /\ DeleteChunksReaddir)
    \/ (~fail /\ DeleteRmdirChunks)
    \/ (~fail /\ DeleteRmdir)
    \/ (~fail /\ DeleteReadIndex)
    \/ DeleteWriteIndex(fail)

SweepStep(fail) ==
    \/ DeleteStep(fail)
    \/ (~fail /\ SweepReturn)

----------------------------------------------------------------------------
(* loadTranscript as a call in flight (the recall tool, the search) *)

\* The call, up to the return of its first await (metadata.json).
LoadStart(s, seq) ==
    /\ ld.pc = "idle"
    /\ MayStart(seq)
    /\ ld' = LoadAdvance([LoadCall(s, ld.res) EXCEPT !.pc = "meta"], fs)
    /\ Start("rd")
    /\ UNCHANGED <<now, budget, fs, index, hvars, swvars, tvars>>

LoadStep ==
    /\ ld.pc # "idle"
    /\ ld' = LoadAdvance(ld, fs)
    /\ Step("rd")
    /\ UNCHANGED <<now, budget, fs, index, hvars, swvars, tvars>>

----------------------------------------------------------------------------
(* Specifications *)

\* Calls made one after the other, each to its end before the next, on a
\* disk whose writes and unlinks may fail.
NextSeq ==
    \/ Tick
    \/ SessionIdle(TRUE, {"h1"}, Sessions, PlainMessages)
    \/ SessionCompacted(TRUE, {"h1"}, Sessions, PlainMessages)
    \/ \E fail \in BOOLEAN : SaveStep("h1", fail)
    \/ cleanupExpiredTranscripts(TRUE)
    \/ \E fail \in BOOLEAN : SweepStep(fail)
    \/ \E s \in Sessions : LoadStart(s, TRUE)
    \/ LoadStep

SpecSeq == Init /\ [][NextSeq]_vars

\* Saves and loads of one session in flight together on a disk that does
\* not fail: two session.idle handlers and the recall tool.
NextOverlap ==
    \/ SessionIdle(FALSE, Handlers, {"s1"}, PlainMessages)
    \/ \E h \in Handlers : SaveStep(h, FALSE)
    \/ LoadStart("s1", FALSE)
    \/ LoadStep

SpecOverlap == Init /\ [][NextOverlap]_vars

\* The hourly sweep in flight together with a session.idle handler, on a
\* disk that does not fail.
NextSweep ==
    \/ Tick
    \/ SessionIdle(FALSE, {"h1"}, Sessions, PlainMessages)
    \/ SaveStep("h1", FALSE)
    \/ cleanupExpiredTranscripts(FALSE)
    \/ SweepStep(FALSE)

SpecSweep == Init /\ [][NextSweep]_vars

----------------------------------------------------------------------------
(* readIndex as a call of its own (listTranscripts, getTranscriptStats) *)

Raises == [st |-> "raises"]
Returns(v) == [st |-> "ok", v |-> v]

\* TRANSCRIPT_DIR is there once anything was made under it.
RootExists == Exists(index) \/ \E s \in Sessions : fs[s].dir

\* await mkdir(TRANSCRIPT_DIR, { recursive: true }): returns (TRUE) when the
\* directory exists or can be made, throws (FALSE) when it cannot be made.
ensureTranscriptDir(canMkdir) == RootExists \/ canMkdir

\* readIndex as its caller sees it: ensureTranscriptDir is awaited before
\* the try block, the read and parse of index.json inside it.
ReadIndexReturns(canMkdir) ==
    IF ensureTranscriptDir(canMkdir) THEN Returns(readIndex) ELSE Raises

ReadIndexCall(canMkdir) ==
    /\ AllIdle
    /\ call' = [op |-> "readIndex", canMkdir |-> canMkdir,
                ret |-> ReadIndexReturns(canMkdir)]
    /\ UNCHANGED <<now, budget, fs, index, hvars, swvars, lvars,
                   timer, solo, streak>>

\* Saves made one after the other on a disk whose writes may fail, and
\* readIndex called in between, in a home directory where TRANSCRIPT_DIR
\* may or may not be creatable.
NextList ==
    \/ SessionIdle(TRUE, {"h1"}, Sessions, PlainMessages)
    \/ \E fail \in BOOLEAN : SaveStep("h1", fail)
    \/ \E canMkdir \in BOOLEAN : ReadIndexCall(canMkdir)

SpecList == Init /\ [][NextList]_vars

----------------------------------------------------------------------------
(* Strings of the search *)

\* Characters of contents: a letter in both cases, a character that as a
\* regular expression matches any character, and one that alone is no valid
\* regular expression.  A query has blanks as well.
ContentChars == {"a", "A", ".", "("}
QueryChars == ContentChars \cup {" "}

Strings(chars, n) == UNION {[1 .. k -> chars] : k \in 0 .. n}

LowerChar(c) == IF c = "A" THEN "a" ELSE c

\* String.prototype.toLowerCase
toLowerCase(s) == [k \in 1 .. Len(s) |-> LowerChar(s[k])]

\* query.split(/\s+/).filter(Boolean), word being the characters read since
\* the last blank.
RECURSIVE SplitWords(_, _)
SplitWords(q, word) ==
    IF q = <<>> THEN (IF word = <<>> THEN <<>> ELSE <<word>>)
    ELSE IF Head(q) = " "
    THEN (IF word = <<>> THEN <<>> ELSE <<word>>) \o SplitWords(Tail(q), <<>>)
    ELSE SplitWords(Tail(q), Append(word, Head(q)))

\* const searchTerms = query.toLowerCase().split(/\s+/).filter(Boolean)
SearchTerms(query) == SplitWords(toLowerCase(query), <<>>)

\* term stands in s at (0-based) offset i.
StartsAt(s, term, i) ==
    /\ i + Len(term) <= Len(s)
    /\ \A k \in 1 .. Len(term) : s[i + k] = term[k]

\* String.prototype.includes
includes(s, term) == \E i \in 0 .. Len(s) : StartsAt(s, term, i)

\* String.prototype.indexOf: the first offset, -1 when there is none.
indexOf(s, term) ==
    IF includes(s, term)
    THEN CHOOSE i \in 0 .. Len(s) :
            /\ StartsAt(s, term, i)
            /\ \A j \in 0 .. (i - 1) : ~StartsAt(s, term, j)
    ELSE -1

\* new RegExp(term, "gi") throws a SyntaxError for a pattern with a group
\* that is not closed.
ValidPattern(term) == \A k \in 1 .. Len(term) : term[k] # "("

\* One character of the pattern against one of the text, ignoring case: "."
\* matches every character but a line terminator.
AtomMatches(atom, c) ==
    IF atom = "." THEN c # "\n" ELSE LowerChar(atom) = LowerChar(c)

PatternAt(term, s, i) ==
    /\ i + Len(term) <= Len(s)
    /\ \A k \in 1 .. Len(term) : AtomMatches(term[k], s[i + k])

\* (content.match(regex) || []).length for a valid pattern: the global scan
\* goes on after the end of each match.
RECURSIVE MatchCountFrom(_, _, _)
MatchCountFrom(term, s, i) ==
    IF i >= Len(s) THEN 0
    ELSE IF PatternAt(term, s, i)
    THEN 1 + MatchCountFrom(term, s, i + Len(term))
    ELSE MatchCountFrom(term, s, i + 1)

Ellipsis == <<".", ".", ".">>

Min(a, b) == IF a < b THEN a ELSE b
Max(a, b) == IF a > b THEN a ELSE b

\* slice(start, end) of a string or an array, 0 <= start: a negative end
\* counts from the end, an end past the length is the length.
Slice(s, start, end) ==
    SubSeq(s, start + 1,
           IF end < 0 THEN Max(Len(s) + end, 0) ELSE Min(end, Len(s)))

truncateText(text, maxLength) ==
    IF Len(text) <= maxLength THEN text
    ELSE Slice(text, 0, maxLength - 3) \o Ellipsis

\* The loop of createExcerpt over terms: the least indexOf that is not -1,
\* content.length when there is none.
RECURSIVE BestIndex(_, _, _)
BestIndex(contentLower, terms, best) ==
    IF terms = <<>> THEN best
    ELSE LET at == indexOf(contentLower, Head(terms)) IN
         BestIndex(contentLower, Tail(terms),
                   IF at # -1 /\ at < best THEN at ELSE best)

\* A window that always starts at offset 0.
WindowAtStart(content, terms, maxLength) ==
    [found |-> TRUE, start |-> 0, end |-> Min(Len(content), maxLength)]

\* The window [start, end) of content that createExcerpt cuts out, and
\* whether it was found around a term.
ExcerptWindow(content, terms, maxLength) ==
    LET bestIndex == BestIndex(toLowerCase(content), terms, Len(content))
        halfLength == maxLength \div 2
        start0 == Max(0, bestIndex - halfLength)
        end == Min(Len(content), start0 + maxLength)
        start == IF end = Len(content) /\ end - start0 < maxLength
                 THEN Max(0, end - maxLength) ELSE start0
    IN
    IF bestIndex = Len(content)
    THEN [found |-> FALSE, start |-> 0,
          end |-> IF Len(content) <= maxLength THEN Len(content)
                  ELSE maxLength - 3]
    ELSE [found |-> TRUE, start |-> start, end |-> end]

createExcerpt(content, terms, maxLength) ==
    LET w == ExcerptWindow(content, terms, maxLength) IN
    IF ~w.found THEN truncateText(content, maxLength)
    ELSE (IF w.start > 0 THEN Ellipsis ELSE <<>>)
         \o Slice(content, w.start, w.end)
         \o (IF w.end < Len(content) THEN Ellipsis ELSE <<>>)

----------------------------------------------------------------------------
(* searchTranscripts, called by the recall tool *)

\* const { limit = 10 } = options
DefaultLimit == 10

\* transcripts.sort((a, b) => b.updatedAt - a.updatedAt) of the entries S of
\* the index.
RECURSIVE ByUpdatedAt(_, _)
ByUpdatedAt(idx, S) ==
    IF S = {} THEN <<>>
    ELSE LET s == CHOOSE x \in S :
                     \A y \in S : idx[y].updatedAt <= idx[x].updatedAt
         IN <<idx[s]>> \o ByUpdatedAt(idx, S \ {s})

\* listTranscripts with no filter and no limit, on the index read.
listTranscripts(idx) == ByUpdatedAt(idx, DOMAIN idx)

\* A chunk that passes for one with any of the terms in it.
MatchesSome(content, searchTerms) ==
    \E k \in 1 .. Len(searchTerms) :
        includes(toLowerCase(content), searchTerms[k])

\* const matches = searchTerms.every((term) => contentLower.includes(term))
Matches(content, searchTerms) ==
    \A k \in 1 .. Len(searchTerms) :
        includes(toLowerCase(content), searchTerms[k])

\* The loop that adds up matchCount over the terms, all of them valid
\* patterns.
RECURSIVE Score(_, _)
Score(content, searchTerms) ==
    IF searchTerms = <<>> THEN 0
    ELSE MatchCountFrom(Head(searchTerms), content, 0)
         + Score(content, Tail(searchTerms))

\* The loop throws at the first term that is no valid pattern.
ScoreThrows(searchTerms) ==
    \E k \in 1 .. Len(searchTerms) : ~ValidPattern(searchTerms[k])

\* context.before and context.after (includeContext is true): absent (<<>>)
\* at the ends of the chunk list.
Context(chunks, i) ==
    [before |-> IF i > 1
                THEN <<truncateText(chunks[i - 1].content, ContextMax)>>
                ELSE <<>>,
     after |-> IF i < Len(chunks)
               THEN <<truncateText(chunks[i + 1].content, ContextMax)>>
               ELSE <<>>]

\* results.push({ ... }) for chunk i of a loaded transcript.
SearchResult(metadata, chunks, i, searchTerms) ==
    [sessionID |-> metadata.sessionID,
     messageID |-> chunks[i].messageID,
     excerpt |-> createExcerpt(chunks[i].content, searchTerms, ExcerptMax),
     timestamp |-> chunks[i].timestamp,
     score |-> Score(chunks[i].content, searchTerms),
     context |-> Context(chunks, i)]

\* The inner loop over transcript.chunks: no results and a throw when a
\* chunk that matches meets a term that is no valid pattern.
ChunkResults(metadata, chunks, searchTerms) ==
    LET matched == SelectSeq([i \in 1 .. Len(chunks) |-> i],
                             LAMBDA i : Matches(chunks[i].content,
                                                searchTerms))
    IN
    IF matched # <<>> /\ ScoreThrows(searchTerms) THEN Raises
    ELSE Returns([k \in 1 .. Len(matched) |->
                     SearchResult(metadata, chunks, matched[k], searchTerms)])

\* The outer loop over the listed transcripts: a transcript that does not
\* load is passed over.
RECURSIVE Collect(_, _)
Collect(transcripts, searchTerms) ==
    IF transcripts = <<>> THEN Returns(<<>>)
    ELSE LET transcript == loadTranscript(Head(transcripts).sessionID, fs)
             here == IF transcript = Null THEN Returns(<<>>)
                     ELSE ChunkResults(Head(transcripts),
                                       transcript.v.chunks, searchTerms)
             rest == Collect(Tail(transcripts), searchTerms)
         IN
         IF here = Raises \/ rest = Raises THEN Raises
         ELSE Returns(here.v \o rest.v)

\* Results left in the order they were found.
KeepOrder(q) == q

RECURSIVE InsertByScore(_, _)
InsertByScore(r, q) ==
    IF q = <<>> THEN <<r>>
    ELSE IF r.score > Head(q).score THEN <<r>> \o q
    ELSE <<Head(q)>> \o InsertByScore(r, Tail(q))

\* results.sort((a, b) => b.score - a.score): stable, descending.
RECURSIVE SortByScore(_)
SortByScore(q) ==
    IF q = <<>> THEN <<>>
    ELSE InsertByScore(q[Len(q)], SortByScore(SubSeq(q, 1, Len(q) - 1)))

searchTranscripts(query, limit, canMkdir) ==
    LET read == ReadIndexReturns(canMkdir)
        found == IF read = Raises THEN Raises
                 ELSE Collect(listTranscripts(read.v), SearchTerms(query))
    IN
    IF found = Raises THEN Raises
    ELSE Returns(Slice(SortByScore(found.v), 0, limit))

\* recallTranscriptTool.execute with a query: searchTranscripts({ query,
\* limit, includeContext: true }).
RecallSearch(query, limit, canMkdir) ==
    /\ AllIdle
    /\ call' = [op |-> "search", query |-> query, limit |-> limit,
                dirOk |-> ensureTranscriptDir(canMkdir),
                ret |-> searchTranscripts(query, limit, canMkdir)]
    /\ UNCHANGED <<now, budget, fs, index, hvars, swvars, lvars,
                   timer, solo, streak>>

\* The corpus: the messages of one session, each one text part.
Contents == Strings(ContentChars, MaxContent) \ {<<>>}
CorpusMessages ==
    UNION {{[k \in 1 .. n |-> Message(k - 1, k - 1, <<TextPart(c[k])>>)] :
               c \in [1 .. n -> Contents]} : n \in 1 .. MaxChunks}
Queries == Strings(QueryChars, MaxQuery)
Limits == {-1, 1, DefaultLimit}

\* A session is saved, and then the recall tool is called with a query.
NextSearch ==
    \/ (~fs["s1"].dir
        /\ SessionIdle(TRUE, {"h1"}, {"s1"}, CorpusMessages))
    \/ SaveStep("h1", FALSE)
    \/ \E query \in Queries, limit \in Limits :
           /\ call = NoCall
           /\ hres["h1"] = "ok"
           /\ RecallSearch(query, limit, TRUE)

SpecSearch == Init /\ [][NextSearch]_vars

----------------------------------------------------------------------------
(* createExcerpt on its own *)

Pending == [st |-> "pending"]

\* Contents longer than maxLength, and the lower-cased terms searchTranscripts
\* passes.
ExcerptContents == Strings({"a", "A", "."}, MaxExcerptContent)
ExcerptTerms == Strings({"a", "."}, 2) \ {<<>>}
ExcerptTermLists == UNION {[1 .. n -> ExcerptTerms] : n \in 1 .. MaxTerms}

InitExcerpt ==
    /\ EmptyStore
    /\ call \in {[op |-> "createExcerpt", content |-> c, terms |-> ts,
                   ret |-> Pending] :
                     c \in ExcerptContents, ts \in ExcerptTermLists}

\* const excerpt = createExcerpt(chunk.content, searchTerms, 500)
CreateExcerptCall ==
    /\ call.op = "createExcerpt"
    /\ call.ret = Pending
    /\ call' = [call EXCEPT !.ret =
                    Returns(createExcerpt(call.content, call.terms,
                                          ExcerptMax))]
    /\ UNCHANGED <<now, budget, fs, index, hvars, swvars, lvars,
                   timer, solo, streak>>

NextExcerpt == CreateExcerptCall

SpecExcerpt == InitExcerpt /\ [][NextExcerpt]_vars

\* One session with no record yet: a host event saves the messages it
\* fetched, whatever their parts, and the recall tool loads the record.
NextRound ==
    \/ (~fs["s1"].dir
        /\ SessionIdle(TRUE, {"h1"}, {"s1"}, FetchedMessages))
    \/ (~fs["s1"].dir
        /\ SessionCompacted(TRUE, {"h1"}, {"s1"}, FetchedMessages))
    \/ SaveStep("h1", FALSE)
    \/ LoadStart("s1", TRUE)
    \/ LoadStep

SpecRound == Init /\ [][NextRound]_vars

----------------------------------------------------------------------------
(* scheduleCleanup: the timers of the retention sweep *)

\* A callback whose sweep raised and which has no catch: the rejection
\* leaves the callback where it stands, and what follows the try block (the
\* setInterval of the first callback) is not reached.
CallbackDies(raised) ==
    IF raised
    THEN [timer EXCEPT !.cb = "idle", !.last = "unhandled"]
    ELSE [timer EXCEPT !.cb = "idle", !.last = "returned",
                       !.armed = IF timer.first THEN "interval" ELSE @]

\* The try block of a timer callback is over: cleanup() returned, or it
\* threw (raised) and the catch logged "Cleanup error".  The setTimeout
\* callback then calls setInterval; the interval stays set.
CallbackEnds(raised) ==
    [timer EXCEPT !.cb = "idle",
                  !.last = IF raised THEN "caught" ELSE "returned",
                  !.caught = IF raised /\ @ < MaxCaught THEN @ + 1 ELSE @,
                  !.armed = IF timer.first THEN "interval" ELSE @]

\* The event handler's first statement, for an event of any type:
\* scheduleCleanup() sets the 30 s timer unless cleanupScheduled.
scheduleCleanup ==
    /\ timer' = IF timer.scheduled THEN timer
                ELSE [timer EXCEPT !.scheduled = TRUE, !.armed = "timeout"]
    /\ UNCHANGED <<now, budget, fs, index, hvars, swvars, lvars, call,
                   solo, streak>>

\* The timeout or the interval elapses and its callback is called, up to
\* the await of cleanup(); an interval fires again only after its callback
\* of the hour before is over.
TimerFires ==
    /\ timer.armed \in {"timeout", "interval"}
    /\ timer.cb = "idle"
    /\ timer' = [timer EXCEPT !.cb = "called",
                              !.first = (timer.armed = "timeout"),
                              !.armed = IF @ = "timeout" THEN "none" ELSE @]
    /\ UNCHANGED <<now, budget, fs, index, hvars, swvars, lvars, call,
                   solo, streak>>

\* cleanup() rejects: the ensureTranscriptDir of its readIndex threw.  The
\* callback's catch takes it.
CleanupRaises ==
    /\ timer.cb = "called"
    /\ \E canMkdir \in BOOLEAN : ~ensureTranscriptDir(canMkdir)
    /\ timer' = CallbackEnds(TRUE)
    /\ UNCHANGED <<now, budget, fs, index, hvars, swvars, lvars, call,
                   solo, streak>>

\* cleanup() gets its index and goes on to its loop.
CallbackSweeps ==
    /\ timer.cb = "called"
    /\ \E canMkdir \in BOOLEAN : ensureTranscriptDir(canMkdir)
    /\ CleanupStarts(FALSE)
    /\ timer' = [timer EXCEPT !.cb = "running"]
    /\ UNCHANGED call

\* cleanup() returns deletedCount to the callback, which logs it if it is
\* positive and leaves its try block.
CallbackReturns ==
    /\ timer.cb = "running"
    /\ CleanupReturns
    /\ timer' = CallbackEnds(FALSE)
    /\ UNCHANGED call

\* What the timers and the sweep they call do.
SweeperStep ==
    \/ TimerFires
    \/ CleanupRaises
    \/ CallbackSweeps
    \/ DeleteStep(FALSE)
    \/ CallbackReturns

\* Host events arrive, session.idle among them, while the clock advances
\* and the timers run.  A timer that is due fires and an await that is
\* pending returns: the event loop never leaves the sweeper waiting forever.
NextSchedule ==
    \/ Tick
    \/ scheduleCleanup
    \/ (timer.scheduled
        /\ SessionIdle(FALSE, {"h1"}, {"s1"}, PlainMessages))
    \/ SaveStep("h1", FALSE)
    \/ SweeperStep

SpecSchedule == Init /\ [][NextSchedule]_vars /\ WF_vars(SweeperStep)

\* One host process: session.idle arrives once for s1 and once for s2, each
\* with its own handler invocation, and the sweep runs as the clock
\* advances; any two of the three may be in flight together.
NextPair ==
    \/ Tick
    \/ \E messages \in PlainMessages :
           /\ hres["h1"] = "none"
           /\ SaveStarts("h1", "s1", messages, FALSE, FALSE)
    \/ \E messages \in PlainMessages :
           /\ hres["h2"] = "none"
           /\ SaveStarts("h2", "s2", messages, FALSE, FALSE)
    \/ \E h \in Handlers : SaveStep(h, FALSE)
    \/ cleanupExpiredTranscripts(FALSE)
    \/ SweepStep(FALSE)

SpecPair == Init /\ [][NextPair]_vars

----------------------------------------------------------------------------
(* Claims *)

NoFault == budget = MaxFaults
IndexKeys == DOMAIN readIndex

\* The session's stored transcript record: its directory with metadata.json.
HasRecord(s) == fs[s].dir /\ Exists(fs[s].meta)

\* C1: after a sequence of saveTranscript calls for one session (each run to
\* its end, nothing failing), loadTranscript returns exactly the chunks of
\* the transcript saved last; no chunk file of an earlier save is returned.
C1_LoadReturnsLastSavedChunks ==
    (/\ hpc["h1"] = "idle"
     /\ hres["h1"] = "ok"
     /\ solo = "h1"
     /\ NoFault)
    => LET got == loadTranscript(htr["h1"].metadata.sessionID, fs) IN
       /\ got.st = "ok"
       /\ got.v.chunks = htr["h1"].chunks

\* C2, read at its weakest (only when no call is in flight, on a disk that
\* never fails): every sessionID that is a key of the on-disk index has its
\* stored transcript record on disk.
C2_IndexKeyHasRecord ==
    AllIdle => \A s \in IndexKeys : HasRecord(s)

\* C3: once metadata.json of a session holds compacted = true, no save
\* triggered by a host event (calls run one after the other, nothing
\* failing) stores compacted = false for that session.
C3_CompactedMonotonic ==
    [][\A s \in Sessions :
          (/\ NoFault
           /\ Parses(fs[s].meta)
           /\ fs[s].meta.v.compacted
           /\ Parses(fs'[s].meta))
          => fs'[s].meta.v.compacted]_vars

\* C4: after a cleanupExpiredTranscripts that started with no call in
\* flight and ran undisturbed to its end, every session whose index entry
\* it found expired is gone: loadTranscript returns null for it and the
\* index has no entry for it.
C4_SweepRemovesExpired ==
    (swpc = "idle" /\ solo = "sw" /\ streak >= 1)
    => \A s \in swexp :
          /\ s \notin IndexKeys
          /\ loadTranscript(s, fs) = Null

\* C5: of two cleanupExpiredTranscripts calls made in succession, with no
\* call in flight and nothing at all happening in between, the second
\* returns 0.
C5_SecondSweepReturnsZero ==
    (swpc = "idle" /\ solo = "sw" /\ streak = 2) => swlast = 0

\* C6: deleteTranscript never raises, and when one of its steps before the
\* index update fails (readdir of a missing session directory, stat, unlink)
\* it still carries out the remaining steps: when it is over the index has
\* no entry for the session.
C6_DeleteRemovesIndexEntryAnyway ==
    (swpc = "loop" /\ solo = "sw" /\ swdel \in {"readdir", "stat", "unlink"})
    => swcur \notin IndexKeys

\* A chunk file of the session that is on disk and does not parse.
MalformedChunk(s) ==
    \E i \in ChunkIds : Exists(fs[s].chunks[i]) /\ ~Parses(fs[s].chunks[i])

\* C7, in the case it names: a loadTranscript that ran undisturbed on a
\* record with a malformed chunk file returned null, never a transcript.
C7_MalformedChunkLoadsNull ==
    (ld.pc = "idle" /\ solo = "rd" /\ MalformedChunk(ld.sid))
    => ld.res = Null

RecordWrites == {"meta", "md", "txt", "chunk"}

\* Handler h's awaited write of a record file threw in this step.
RecordWriteFails(h) ==
    /\ hpc[h] \in RecordWrites
    /\ swpc = "idle"
    /\ budget' = budget - 1

\* Every file of the transcript h is saving is on disk as h wrote it.
RecordWritten(h) ==
    LET s == htr[h].metadata.sessionID IN
    /\ fs[s].meta = Ok(JSONStringify(htr[h].metadata))
    /\ fs[s].md = Ok(htr[h].markdown)
    /\ fs[s].txt = Ok(htr[h].text)
    /\ \A k \in 1 .. Len(htr[h].chunks) :
          fs[s].chunks[htr[h].chunks[k].id] = Ok(htr[h].chunks[k])

Whole(tr) ==
    LET u == tr.metadata.updatedAt
        n == tr.metadata.messageCount
    IN
    /\ tr.markdown = u
    /\ tr.text = u
    /\ \A i \in 0 .. (n - 1) :
          \E k \in 1 .. Len(tr.chunks) :
              tr.chunks[k] = Chunk(tr.metadata.sessionID, i, u)

\* C9: a loadTranscript that overlaps saveTranscript calls of the same
\* session returns null or a whole transcript, never parts of two or a part
\* of one.
C9_LoadNeverTorn ==
    (ld.pc = "idle" /\ ld.res.st = "ok") => Whole(ld.res.v)

\* The record stored for session s, read file by file.
StoredTranscript(s) ==
    [metadata |-> fs[s].meta.v,
     markdown |-> Text(fs[s].md),
     text |-> Text(fs[s].txt),
     chunks |-> SelectSeq([k \in 1 .. MaxChunks |->
                              IF Parses(fs[s].chunks[k - 1])
                              THEN fs[s].chunks[k - 1].v
                              ELSE Chunk(s, k - 1, 0)],
                          LAMBDA c : c.rev # 0)]

\* C10: when the saveTranscript calls for a session, overlapping or not,
\* have all completed, the stored record (metadata.json, transcript.md,
\* transcript.txt, the chunk files and the index entry) is as a whole the
\* transcript of one call.
C10_LastWriterWins ==
    \A s \in Sessions :
        (HandlersIdle /\ Parses(fs[s].meta) /\ s \in IndexKeys)
        => /\ Whole(StoredTranscript(s))
           /\ readIndex[s] = fs[s].meta.v

MetadataKeys ==
    {"sessionID", "createdAt", "updatedAt", "messageCount", "compacted",
     "compactedAt", "expiresAt"}

SameMetadata(a, b) == \A key \in MetadataKeys : Field(a, key) = Field(b, key)

\* The same chunks, in whatever order.
SameChunks(a, b) ==
    /\ Len(a) = Len(b)
    /\ \A k \in 1 .. Len(a) : \E j \in 1 .. Len(b) : b[j] = a[k]

\* The session's first save is over and a loadTranscript ran after it.
LoadedAfterFirstSave ==
    /\ hpc["h1"] = "idle"
    /\ hres["h1"] = "ok"
    /\ ld.pc = "idle"
    /\ solo = "rd"

\* C11: for a session with no prior record and any message list,
\* buildTranscript, saveTranscript and then loadTranscript return a
\* transcript with as many chunks as the built one, the same chunks (their
\* id, messageID, content and timestamp) and the same metadata.
C11_RoundTrip ==
    LoadedAfterFirstSave
    => /\ ld.res.st = "ok"
       /\ SameChunks(ld.res.v.chunks, htr["h1"].chunks)
       /\ SameMetadata(ld.res.v.metadata, htr["h1"].metadata)
       /\ ld.res.v.markdown = htr["h1"].markdown
       /\ ld.res.v.text = htr["h1"].text

\* Two chunks came back, sorted into another order than they were built in.
C11_Witness ==
    /\ LoadedAfterFirstSave
    /\ ld.res.st = "ok"
    /\ Len(ld.res.v.chunks) = 2
    /\ ld.res.v.chunks # htr["h1"].chunks

\* C12: whatever interrupts writeIndex (inside updateIndexEntry or
\* removeIndexEntry), index.json holds the complete previous index or the
\* complete new one: an index file that parsed still parses after the step,
\* so the next readIndex does not fall back to the empty index.
C12_IndexWriteAllOrNothing ==
    [][Parses(index) => Parses(index')]_vars

\* C14: in a session's stored metadata compactedAt is absent while compacted
\* is false, it is set by the save that takes compacted from false to true,
\* and a later save of the session, already compacted, leaves its value as
\* it is (saves made one after the other, nothing failing).
C14_CompactedAtSetOnce ==
    [][\A s \in Sessions :
          (NoFault /\ Parses(fs'[s].meta))
          => LET new == fs'[s].meta.v IN
             /\ ~new.compacted => Field(new, "compactedAt") = {}
             /\ new.compacted => Field(new, "compactedAt") # {}
             /\ (Parses(fs[s].meta) /\ fs[s].meta.v.compacted
                 /\ new.compacted)
                => Field(new, "compactedAt")
                   = Field(fs[s].meta.v, "compactedAt")]_vars

\* C13: readIndex never raises to its caller: whether index.json is missing,
\* truncated or whole, and whether or not the transcript directory can be
\* created, it returns an index, the empty one when the file does not parse.
C13_ReadIndexNeverRaises ==
    call.op = "readIndex"
    => /\ call.ret.st = "ok"
       /\ ~Parses(index) => call.ret.v = EmptyIndex

\* The chunks of the searched session, as stored.
StoredChunks ==
    LET transcript == loadTranscript("s1", fs) IN
    IF transcript = Null THEN {}
    ELSE {transcript.v.chunks[k] : k \in 1 .. Len(transcript.v.chunks)}

Searched == call.op = "search" /\ call.ret.st = "ok"

ResultIds(results) == {results[k].messageID : k \in 1 .. Len(results)}

\* The whitespace-separated terms of the lower-cased query: its longest
\* runs of characters that are not blanks.
TermsOf(query) ==
    LET q == toLowerCase(query)
        blanks == {x \in 1 .. Len(q) : q[x] = " "}
        starts == {1} \cup {x + 1 : x \in blanks}
        ends == {Len(q)} \cup {x - 1 : x \in blanks}
    IN
    {w \in {SubSeq(q, i, j) : i \in starts, j \in ends} :
        w # <<>> /\ \A k \in 1 .. Len(w) : w[k] # " "}

\* term is a substring of content, case ignored.
SubstringAt(content, term, i) ==
    /\ i + Len(term) <= Len(content)
    /\ \A k \in 1 .. Len(term) :
          LowerChar(content[i + k]) = LowerChar(term[k])

Occurrences(content, term) ==
    Cardinality({i \in 0 .. Len(content) : SubstringAt(content, term, i)})

HasAllTerms(content, query) ==
    \A term \in TermsOf(query) : Occurrences(content, term) > 0

RECURSIVE JoinBlank(_)
JoinBlank(words) ==
    IF words = <<>> THEN <<>>
    ELSE IF Len(words) = 1 THEN Head(words)
    ELSE Head(words) \o <<" ">> \o JoinBlank(Tail(words))

WithoutTerm(query, k) ==
    LET terms == SearchTerms(query) IN
    JoinBlank(SubSeq(terms, 1, k - 1) \o SubSeq(terms, k + 1, Len(terms)))

\* C16: a chunk of the searched transcript is a match iff every
\* whitespace-separated term of the lower-cased query is a substring of its
\* content, case ignored (seen in the results of a search that no limit
\* cuts short); and a chunk that matches a query matches the query with any
\* one term removed.
C16_ConjunctiveMatch ==
    /\ (Searched /\ call.limit = DefaultLimit)
       => ResultIds(call.ret.v)
          = {c.messageID : c \in {x \in StoredChunks :
                                     HasAllTerms(x.content, call.query)}}
    /\ call.op = "search"
       => \A k \in 1 .. Len(SearchTerms(call.query)), c \in StoredChunks :
             Matches(c.content, SearchTerms(call.query))
             => Matches(c.content,
                        SearchTerms(WithoutTerm(call.query, k)))

\* A query of two terms, one of them in upper case, found one of two chunks.
C16_Witness ==
    /\ Searched
    /\ call.limit = DefaultLimit
    /\ Len(SearchTerms(call.query)) = 2
    /\ \E k \in 1 .. Len(call.query) : call.query[k] = "A"
    /\ Cardinality(StoredChunks) = 2
    /\ Cardinality(ResultIds(call.ret.v)) = 1

RECURSIVE SumOccurrences(_, _)
SumOccurrences(content, terms) ==
    IF terms = <<>> THEN 0
    ELSE Occurrences(content, Head(terms))
         + SumOccurrences(content, Tail(terms))

\* C17: the score of every search result is the sum, over the terms of the
\* query, of the number of occurrences of the term as a substring of the
\* chunk content, case ignored, and so is at least the number of terms,
\* whatever characters the terms are made of.
C17_ScoreCountsOccurrences ==
    Searched
    => \A k \in 1 .. Len(call.ret.v), c \in StoredChunks :
          c.messageID = call.ret.v[k].messageID
          => /\ call.ret.v[k].score
                = SumOccurrences(c.content, SearchTerms(call.query))
             /\ call.ret.v[k].score >= Len(SearchTerms(call.query))

\* C18: searchTranscripts never raises, whatever the query string: it
\* returns a list of results, empty when no chunk has the terms.
C18_SearchNeverRaises ==
    call.op = "search" => call.ret.st = "ok"

Excerpted == call.op = "createExcerpt" /\ call.ret.st = "ok"

\* Offsets at which a term occurs in the content, case ignored.
TermOffsets(content, terms) ==
    {i \in 0 .. Len(content) :
        \E k \in 1 .. Len(terms) : SubstringAt(content, terms[k], i)}

Earliest(content, terms) ==
    CHOOSE i \in TermOffsets(content, terms) :
        \A j \in TermOffsets(content, terms) : i <= j

StartsWith(s, prefix) ==
    Len(prefix) <= Len(s) /\ SubSeq(s, 1, Len(prefix)) = prefix

\* The excerpt is the window [start, end) of the content, with "..." added
\* in front (pre) and behind (post) or not.
IsWindow(excerpt, content, start, end, pre, post) ==
    /\ start <= end
    /\ excerpt = pre \o Slice(content, start, end) \o post

\* C19 as the spec has it: the excerpt is at most maxLength + 6 long, it
\* starts with "..." only if its window starts after offset 0, and the
\* window holds the earliest offset at which a term occurs.  (That "..." is
\* added at the end only if the window ends before the end of the content
\* is part of the formula that follows.)
C19_ExcerptAsStated ==
    Excerpted
    => LET w == ExcerptWindow(call.content, call.terms, ExcerptMax)
           offsets == TermOffsets(call.content, call.terms)
       IN
       /\ Len(call.ret.v) <= ExcerptMax + 6
       /\ StartsWith(call.ret.v, Ellipsis) => w.start > 0
       /\ offsets # {}
          => /\ w.start <= Earliest(call.content, call.terms)
             /\ Earliest(call.content, call.terms) < w.end

\* C19, as it holds: the excerpt is at most maxLength + 6 long and is a
\* window of the content of at most maxLength characters, with "..." added
\* in front only if the window starts after offset 0 and "..." added behind
\* only if it ends before the end of the content; the window holds the
\* earliest offset at which a term occurs.
C19_ExcerptWindowAndMarks ==
    Excerpted
    => LET content == call.content
           offsets == TermOffsets(content, call.terms)
       IN
       /\ Len(call.ret.v) <= ExcerptMax + 6
       /\ \E start \in 0 .. Len(content), end \in 0 .. Len(content),
             pre \in {<<>>, Ellipsis}, post \in {<<>>, Ellipsis} :
             /\ IsWindow(call.ret.v, content, start, end, pre, post)
             /\ end - start <= ExcerptMax
             /\ pre = Ellipsis => start > 0
             /\ post = Ellipsis => end < Len(content)
             /\ offsets # {}
                => /\ start <= Earliest(content, call.terms)
                   /\ Earliest(content, call.terms) < end

\* An excerpt from the middle of a content, with both marks added.
C19_Witness ==
    /\ Excerpted
    /\ Len(call.ret.v) = ExcerptMax + 6
    /\ Len(call.content) = MaxExcerptContent

\* C20: every chunk createChunks emits has content that is not empty: a
\* message whose parts contribute no characters (a single text part with
\* empty text, say) yields no chunk; and no message yields two.
C20_ChunkHasContent ==
    \A h \in Handlers :
        /\ \A k \in 1 .. Len(htr[h].chunks) :
              htr[h].chunks[k].content # <<>>
        /\ Len(htr[h].chunks) <= htr[h].metadata.messageCount

\* C21: once scheduleCleanup has set the timer, the periodic sweep keeps
\* firing, whatever sweeps raised: an error of the first sweep or of a
\* periodic one is caught and logged, the interval is set after the first
\* sweep and stays set, and its callback is called again and again.
C21_SweepsKeepFiring ==
    /\ [](timer.scheduled =>
            []<>(timer.cb = "called" /\ ~timer.first))
    /\ [](timer.last # "unhandled")
    /\ [][timer.armed = "interval" => timer'.armed = "interval"]_vars

\* Both the first sweep and a periodic one raised and were logged, and the
\* interval's callback is called once more.
C21_Witness ==
    /\ timer.caught = MaxCaught
    /\ timer.last = "caught"
    /\ timer.cb = "called"
    /\ ~timer.first

\* C22: no index update is lost when the saves of two different sessions,
\* or a save and the sweep's removeIndexEntry of another session, overlap:
\* once all of them are over, the index holds every session whose saved
\* record is on disk and no session whose record the sweep removed.
C22_NoLostIndexUpdate ==
    AllIdle =>
        \A s \in Sessions :
            /\ Parses(fs[s].meta) => s \in IndexKeys
            /\ s \in IndexKeys => Parses(fs[s].meta)

\* This step removes a file of session s's record, or s's index entry.
Removes(s) ==
    \/ Exists(fs[s].meta) /\ ~Exists(fs'[s].meta)
    \/ Exists(fs[s].md) /\ ~Exists(fs'[s].md)
    \/ Exists(fs[s].txt) /\ ~Exists(fs'[s].txt)
    \/ \E i \in ChunkIds :
           Exists(fs[s].chunks[i]) /\ ~Exists(fs'[s].chunks[i])
    \/ s \in IndexKeys /\ s \notin DOMAIN (IF Parses(index') THEN index'.v
                                            ELSE EmptyIndex)

\* C23: cleanupExpiredTranscripts deletes nothing of a transcript that is
\* not expired at the moment of the deletion: whenever a step removes a file
\* or the index entry of a session, the index as it is then has the session
\* expired.  A save that completes after the sweep read the index and before
\* the sweep reaches the session keeps its transcript.
C23_DeletesOnlyExpired ==
    [][\A s \in Sessions : Removes(s) => s \in Expired(readIndex, now)]_vars

====
